---- MODULE Spec2Model ----
(***************************************************************************)
(* Quantis: the asynchronous decision-analysis job.  One row of the        *)
(* `analyses` table, the stream route that creates it and runs the launch  *)
(* task, the continue route and its relaunch task, and the update-status   *)
(* route.  Every await of the routes is a point where the other requests   *)
(* and tasks may run, so each store write is one step.                     *)
(*                                                                         *)
(* Spec        the job: stream, continue and update-status routes          *)
(* AnalyzeSpec the synchronous analyze route and the status route          *)
(* GuardSpec   the hypothesis chips of a tab: chat turn and chip save      *)
(* TabsSpec    TabsProvider and HistoryModal: close, reopen, permanent     *)
(*             deletion and project switch over the closed-tab sets        *)
(* ScopeSpec   the job as in Spec, with the caller and the fields of each  *)
(*             update-status request kept, and bodies that carry steps     *)
(* PollSpec    useAnalysisProgress polling the job of a launch             *)
(* FairSpec    Spec with every await of a started task resolving           *)
(***************************************************************************)
EXTENDS Integers, Sequences, FiniteSets, TLC

\* ---------------------------------------------------------------- bounds
MaxResumes == 1
MaxUpdates == 2
MaxChips == 2

\* ------------------------------------------------------- users and scopes
User == "u1"
OtherUser == "u2"
Users == {User, OtherUser}

\* projects.user_id
ProjectOwner == [p \in {"p1", "p2"} |-> IF p = "p1" THEN User ELSE OtherUser]

\* files.user_id, files.project_id
FileRows ==
  [f \in {"f1", "f2", "f3"} |->
     IF f = "f3" THEN [user_id |-> OtherUser, project_id |-> "p2"]
                 ELSE [user_id |-> User, project_id |-> "p1"]]

JobId == "a1"
LaunchTask == 0
ResumeIds == 1..MaxResumes
TaskIds == {LaunchTask} \cup ResumeIds

\* ------------------------------------------------------------ step template
StepNames ==
  << "analyzing_question", "checking_files", "analyzing_structure",
     "calculating_metrics", "generating_scenarios", "creating_recommendations" >>

initialSteps ==
  [i \in 1..Len(StepNames) |->
     [name |-> StepNames[i], status |-> "pending", message |-> ""]]

\* the `steps` constant of launchAnalysisAsync
steps ==
  [i \in 1..Len(StepNames) |->
     [name |-> StepNames[i],
      status |-> IF i = 1 THEN "in_progress" ELSE "pending",
      message |-> IF i = 1 THEN "question" ELSE ""]]

\* steps.map((s, i) => ({...s, status: i === k ? in_progress : i < k ? completed : pending,
\*                       message: i === k ? msg : s.message}))   (k is 0-based)
StepsAt(k, msg) ==
  [i \in 1..Len(steps) |->
     [name |-> steps[i].name,
      status |-> IF i - 1 = k THEN "in_progress"
                 ELSE IF i - 1 < k THEN "completed" ELSE "pending",
      message |-> IF i - 1 = k THEN msg ELSE steps[i].message]]

\* steps.map((s) => ({...s, status: 'completed', message: s.message || 'Termine'}))
StepsCompleted ==
  [i \in 1..Len(steps) |->
     [name |-> steps[i].name, status |-> "completed",
      message |-> IF steps[i].message # "" THEN steps[i].message ELSE "Termine"]]

\* ------------------------------------------------------------ record store
\* an update that writes a whole row: the columns it is not given are set
\* to their defaults
PatchWholeRow(row, fields) ==
  [c \in DOMAIN row |->
     IF c \in DOMAIN fields THEN fields[c]
     ELSE IF c \in {"user_id", "project_id", "question", "file_ids"} THEN row[c]
     ELSE IF c = "status" THEN "pending"
     ELSE IF c = "progress" THEN 0
     ELSE IF c \in {"partial_result", "result"} THEN "{}"
     ELSE IF c = "current_step" THEN "null"
     ELSE << >>]

\* supabase .update(fields): only the named columns are overwritten
Patch(row, fields) ==
  [c \in DOMAIN row |-> IF c \in DOMAIN fields THEN fields[c] ELSE row[c]]

\* an update that is not narrowed to the rows of the caller
UpdateRowOfAnyUser(tbl, id, actor, fields) ==
  IF id \in DOMAIN tbl
    THEN [k \in DOMAIN tbl |-> IF k = id THEN Patch(tbl[k], fields) ELSE tbl[k]]
    ELSE tbl

\* .from('analyses').update(fields).eq('id', id), under the row-level policy
\* "Users can update their own analyses"
UpdateRow(tbl, id, actor, fields) ==
  IF id \in DOMAIN tbl /\ tbl[id].user_id = actor
    THEN [k \in DOMAIN tbl |-> IF k = id THEN Patch(tbl[k], fields) ELSE tbl[k]]
    ELSE tbl

\* ---------------------------------------------------------- request inputs
Questions ==
  { [type |-> "string", text |-> "Can I hire at 60000?"],
    [type |-> "string", text |-> ""],
    [type |-> "undefined", text |-> ""],
    [type |-> "number", text |-> "42"] }

NoProject == "none"
ProjectInputs == {NoProject, "p1", "p2", "p9"}

\* file_ids of the request body: absent, or an array
FileIdInputs ==
  { [array |-> FALSE, ids |-> << >>],
    [array |-> TRUE, ids |-> << >>],
    [array |-> TRUE, ids |-> <<"f1">>],
    [array |-> TRUE, ids |-> <<"f1", "f1">>],
    [array |-> TRUE, ids |-> <<"f1", "f3">>],
    [array |-> TRUE, ids |-> <<"f1", "f9">>] }

LaunchInputs ==
  [question : Questions, project_id : ProjectInputs, file_ids : FileIdInputs]

\* missing_data items reported by the analysis service
MissingItems ==
  << [id |-> "salary", type |-> "number", description |-> "salary", required |-> TRUE],
     [id |-> "note", type |-> "text", description |-> "note", required |-> FALSE] >>

\* bodies of POST continue: the missing-data form, or a hypothesis relaunch
SuppliedInputs ==
  { [k \in {} |-> 0],
    [k \in {"salary"} |-> 60000],
    [k \in {"hypotheses"} |-> 1] }

\* bodies of POST update-status
UpdateBodies ==
  { [status |-> "waiting_for_data", missing_data |-> MissingItems],
    [current_step |-> "calculating_metrics", progress |-> 50] }

UpdateFields == {"status", "current_step", "progress", "steps", "missing_data"}

EmptyResult == "{}"
Null == "null"
Report == "report"

NoResponse == [code |-> 0]

\* ------------------------------------------------------------------- state
VARIABLES
  analyses,    \* the analyses table: id -> row
  launchReq,   \* body of the last POST stream request
  launchResp,  \* response of the last POST stream request
  ltask,       \* the launch task (launchAnalysisAsync of the stream route)
  cont,        \* POST continue requests and their relaunch tasks; `seen` is
               \* the status of the row when the route read it, `fromWaiting`
               \* whether the row was waiting_for_data when the route wrote
  aiCalls,     \* requests sent to the analysis service, per task
  updates,     \* number of POST update-status requests served
  sync,        \* the last POST analyze (synchronous) request and its response
  panel,       \* a decision tab with its hypothesis chips, the last chat
               \* turn or chip save made on it and the relaunch it issued
  activeProjectId,  \* useProjects().activeProjectId
  closedTabs,  \* TabsProvider state: the closed tab ids of the active project
  localStorage,     \* closed_tabs_<project> -> the stored closed tab ids
  decisionTabs,     \* TabsProvider state: the ids of the tabs listed as open
  loads,       \* loadAnalyses calls whose query is answered and whose
               \* continuation has not run yet
  del,         \* the permanentlyDeleteTab call in flight
  history,     \* HistoryModal: whether it is open, and the tabs it lists
  trip,        \* the state before the last closeTab made with no reload
               \* pending, kept while nothing but the reopening of that tab
               \* follows
  poller,      \* useAnalysisProgress: its refs, its status and error state
               \* and the status request in flight
  lastUpdate   \* the caller and the body of the last POST update-status

\* the variables of the stream, continue and update-status routes
jobVars == << analyses, launchReq, launchResp, ltask, cont, aiCalls, updates >>

\* state outside the job orchestrator proper
tabVars ==
  << activeProjectId, closedTabs, localStorage, decisionTabs, loads, del,
     history, trip >>

\* the polling hook and the log of update-status requests
hookVars == << poller, lastUpdate >>

clientVars == << sync, panel, tabVars, hookVars >>

vars == << analyses, launchReq, launchResp, ltask, cont, aiCalls, updates,
           clientVars >>

IdleSync ==
  [req |-> [question |-> [type |-> "undefined", text |-> ""],
            project_id |-> NoProject,
            file_ids |-> [array |-> FALSE, ids |-> << >>]],
   resp |-> NoResponse]

IdleCont ==
  [pc |-> "idle", actor |-> User, supplied |-> [k \in {} |-> 0],
   question |-> "", file_ids |-> << >>, seen |-> "none",
   fromWaiting |-> FALSE, resp |-> NoResponse]

JobInit ==
  /\ analyses = << >>
  /\ launchReq = [question |-> [type |-> "undefined", text |-> ""],
                  project_id |-> NoProject,
                  file_ids |-> [array |-> FALSE, ids |-> << >>]]
  /\ launchResp = NoResponse
  /\ ltask = [pc |-> "idle", filesData |-> << >>]
  /\ cont = [c \in ResumeIds |-> IdleCont]
  /\ aiCalls = [t \in TaskIds |-> << >>]
  /\ updates = 0

Exists == JobId \in DOMAIN analyses
rec == analyses[JobId]

\* ------------------------------------------------------ POST stream (launch)
\* !question || typeof question !== 'string'
QuestionRejected(q) == q.type # "string" \/ q.text = ""

\* projects.select('id').eq('id', project_id).eq('user_id', user.id).single()
ProjectFound(p, caller) == p \in DOMAIN ProjectOwner /\ ProjectOwner[p] = caller

\* files.select('id').eq('user_id', ..).eq('project_id', ..).in('id', file_ids)
FilesFound(ids, p, caller) ==
  { f \in DOMAIN FileRows :
      /\ FileRows[f].user_id = caller
      /\ FileRows[f].project_id = p
      /\ \E i \in 1..Len(ids) : ids[i] = f }

\* a check that only asks for some file of the caller to be found
FilesRejectedWhenNoneFound(fi, p, caller) ==
  /\ fi.array
  /\ Len(fi.ids) > 0
  /\ Cardinality(FilesFound(fi.ids, p, caller)) = 0

\* files.length !== file_ids.length, checked only for a non-empty array
FilesRejected(fi, p, caller) ==
  /\ fi.array
  /\ Len(fi.ids) > 0
  /\ Cardinality(FilesFound(fi.ids, p, caller)) # Len(fi.ids)

LaunchStatus(req, caller) ==
  IF QuestionRejected(req.question) THEN 400
  ELSE IF req.project_id = NoProject THEN 400
  ELSE IF ~ProjectFound(req.project_id, caller) THEN 403
  ELSE IF FilesRejected(req.file_ids, req.project_id, caller) THEN 403
  ELSE 200

NewRow(req, caller) ==
  [user_id |-> caller,
   project_id |-> req.project_id,
   question |-> req.question.text,
   file_ids |-> req.file_ids.ids,
   status |-> "pending",
   current_step |-> "analyzing_question",
   progress |-> 0,
   steps |-> initialSteps,
   missing_data |-> << >>,
   partial_result |-> EmptyResult,
   result |-> EmptyResult]

\* a route that awaits the first write of the task before it responds
LaunchAwaitingTask ==
  /\ ~Exists
  /\ \E req \in LaunchInputs, insertOk \in BOOLEAN :
       LET code == LaunchStatus(req, User) IN
       /\ launchReq' = req
       /\ IF code # 200
            THEN /\ launchResp' = [code |-> code]
                 /\ UNCHANGED << analyses, ltask >>
            ELSE IF ~insertOk
              THEN /\ launchResp' = [code |-> 500]
                   /\ UNCHANGED << analyses, ltask >>
              ELSE /\ analyses' = [k \in {JobId} |->
                        Patch(NewRow(req, User),
                              [status |-> "in_progress", progress |-> 5])]
                   /\ ltask' = [ltask EXCEPT !.pc = "check"]
                   /\ launchResp' = [code |-> 200, analysis_id |-> JobId,
                                     status |-> "pending",
                                     current_step |-> "analyzing_question",
                                     progress |-> 0, steps |-> initialSteps]
  /\ UNCHANGED << cont, aiCalls, updates, clientVars >>

\* The whole synchronous part of the route: validation, insert, the call of
\* launchAnalysisAsync (which suspends at its first await) and the response.
Launch ==
  /\ ~Exists
  /\ \E req \in LaunchInputs, insertOk \in BOOLEAN :
       LET code == LaunchStatus(req, User) IN
       /\ launchReq' = req
       /\ IF code # 200
            THEN /\ launchResp' = [code |-> code]
                 /\ UNCHANGED << analyses, ltask >>
            ELSE IF ~insertOk
              THEN /\ launchResp' = [code |-> 500]
                   /\ UNCHANGED << analyses, ltask >>
              ELSE /\ analyses' = [k \in {JobId} |-> NewRow(req, User)]
                   /\ ltask' = [ltask EXCEPT !.pc = "start"]
                   /\ launchResp' = [code |-> 200, analysis_id |-> JobId,
                                     status |-> "pending",
                                     current_step |-> "analyzing_question",
                                     progress |-> 0, steps |-> initialSteps]
  /\ UNCHANGED << cont, aiCalls, updates, clientVars >>

\* --------------------------------------------- launch task (stream route)
\* body sent to the analysis service
Call(question, file_ids, files_data, provided) ==
  [question |-> question, file_ids |-> file_ids,
   files_data |-> files_data, provided_data |-> provided]

NoProvided == [k \in {"none"} |-> 0]

\* the subsequences of ids: what downloadFilesForBackend can return when
\* the file query or some downloads fail
RECURSIVE SubSeqs(_)
SubSeqs(s) ==
  IF s = << >> THEN { << >> }
  ELSE LET rest == SubSeqs(Tail(s)) IN
       rest \cup { <<Head(s)>> \o r : r \in rest }

\* lines 284-290: first write of the task
LaunchStart ==
  /\ ltask.pc = "start"
  /\ analyses' = UpdateRow(analyses, JobId, User,
       [status |-> "in_progress", current_step |-> "analyzing_question",
        progress |-> 5, steps |-> steps])
  /\ ltask' = [ltask EXCEPT !.pc = "check"]
  /\ UNCHANGED << launchReq, launchResp, cont, aiCalls, updates, clientVars >>

\* lines 171-214: downloadFilesForBackend never throws; it returns the files
\* it could fetch, in order, none when the file query fails
downloadFilesForBackend(fileIds) == SubSeqs(fileIds)

\* a download step that fails the job when some file could not be fetched
LaunchCheckFilesFatal ==
  /\ ltask.pc = "check"
  /\ \E got \in downloadFilesForBackend(launchReq.file_ids.ids) :
       IF got = launchReq.file_ids.ids
         THEN /\ analyses' = UpdateRow(analyses, JobId, User,
                   [current_step |-> "checking_files", progress |-> 10,
                    steps |-> StepsAt(1, "download")])
              /\ ltask' = [ltask EXCEPT !.pc = "structure", !.filesData = got]
         ELSE /\ analyses' = UpdateRow(analyses, JobId, User,
                   [status |-> "error", progress |-> 0])
              /\ ltask' = [ltask EXCEPT !.pc = "rejected", !.filesData = got]
  /\ UNCHANGED << launchReq, launchResp, cont, aiCalls, updates, clientVars >>

\* lines 293-305: the write of step 1, then the download (which touches no
\* row of the analyses table)
LaunchCheckFiles ==
  /\ ltask.pc = "check"
  /\ analyses' = UpdateRow(analyses, JobId, User,
       [current_step |-> "checking_files", progress |-> 10,
        steps |-> StepsAt(1, "download")])
  /\ \E got \in downloadFilesForBackend(launchReq.file_ids.ids) :
       ltask' = [ltask EXCEPT !.pc = "structure", !.filesData = got]
  /\ UNCHANGED << launchReq, launchResp, cont, aiCalls, updates, clientVars >>

\* lines 307-331: the write of step 2, then the request to the service
LaunchStructure ==
  /\ ltask.pc = "structure"
  /\ analyses' = UpdateRow(analyses, JobId, User,
       [current_step |-> "analyzing_structure", progress |-> 20,
        steps |-> StepsAt(2, "structure")])
  /\ aiCalls' = [aiCalls EXCEPT ![LaunchTask] =
       Append(@, Call(launchReq.question.text, launchReq.file_ids.ids,
                      ltask.filesData, NoProvided))]
  /\ ltask' = [ltask EXCEPT !.pc = "await"]
  /\ UNCHANGED << launchReq, launchResp, cont, updates, clientVars >>

\* The service answers in one of three ways: ok with a JSON body, not ok,
\* or the fetch / response.json() throws.  The arrival of the answer changes
\* nothing another request can see, so it is one step with the write that
\* follows it.

\* an error write that also clears the step
ErrorFieldsClearingStep ==
  [status |-> "error", progress |-> 0, current_step |-> "none"]

\* fields written on every error path
ErrorFields == [status |-> "error", progress |-> 0]

\* lines 333-347: the answer is not ok
LaunchNotOk ==
  /\ ltask.pc = "await"
  /\ analyses' = UpdateRow(analyses, JobId, User, ErrorFields)
  /\ ltask' = [ltask EXCEPT !.pc = "catch"]
  /\ UNCHANGED << launchReq, launchResp, cont, aiCalls, updates, clientVars >>

\* lines 349-362: the answer is ok
LaunchCompleted ==
  /\ ltask.pc = "await"
  /\ analyses' = UpdateRow(analyses, JobId, User,
       [status |-> "completed", current_step |-> "creating_recommendations",
        progress |-> 100, steps |-> StepsCompleted])
  /\ ltask' = [ltask EXCEPT !.pc = "result"]
  /\ UNCHANGED << launchReq, launchResp, cont, aiCalls, updates, clientVars >>

\* lines 364-370
LaunchSaveResult ==
  /\ ltask.pc = "result"
  /\ analyses' = UpdateRow(analyses, JobId, User, [result |-> Report])
  /\ ltask' = [ltask EXCEPT !.pc = "done"]
  /\ UNCHANGED << launchReq, launchResp, cont, aiCalls, updates, clientVars >>

\* lines 373-386: the catch block of the task, entered when the fetch or
\* response.json() throws ("await") or after LaunchNotOk ("catch")
LaunchCatch ==
  /\ ltask.pc \in {"await", "catch"}
  /\ analyses' = UpdateRow(analyses, JobId, User, ErrorFields)
  /\ ltask' = [ltask EXCEPT !.pc = "rejected"]
  /\ UNCHANGED << launchReq, launchResp, cont, aiCalls, updates, clientVars >>

\* lines 138-152: the .catch handler attached by the route
LaunchRejected ==
  /\ ltask.pc = "rejected"
  /\ analyses' = UpdateRow(analyses, JobId, User, ErrorFields)
  /\ ltask' = [ltask EXCEPT !.pc = "done"]
  /\ UNCHANGED << launchReq, launchResp, cont, aiCalls, updates, clientVars >>

LaunchTaskStep ==
  \/ LaunchStart
  \/ LaunchCheckFiles
  \/ LaunchStructure
  \/ LaunchNotOk
  \/ LaunchCompleted
  \/ LaunchSaveResult
  \/ LaunchCatch
  \/ LaunchRejected

\* ------------------------------------------------------------ POST continue
\* lines 32-46: the read of the row, scoped to the caller
ContinueRead(c) ==
  /\ cont[c].pc = "idle"
  /\ \A d \in ResumeIds : d < c => cont[d].pc # "idle"
  /\ Exists
  /\ \E actor \in Users, data \in SuppliedInputs :
       IF rec.user_id = actor
         THEN cont' = [cont EXCEPT ![c] =
                [@ EXCEPT !.pc = "write", !.actor = actor, !.supplied = data,
                          !.question = rec.question, !.file_ids = rec.file_ids,
                          !.seen = rec.status]]
         ELSE cont' = [cont EXCEPT ![c] =
                [@ EXCEPT !.pc = "done", !.actor = actor, !.supplied = data,
                          !.resp = [code |-> 404]]]
  /\ UNCHANGED << analyses, launchReq, launchResp, ltask, aiCalls, updates, clientVars >>

\* a resume that keeps the progress of the parked job
ResumeFieldsKeepingProgress ==
  [status |-> "in_progress", missing_data |-> << >>,
   current_step |-> "analyzing_structure"]

\* fields written by the route before it relaunches
ResumeFields ==
  [status |-> "in_progress", missing_data |-> << >>, progress |-> 20,
   current_step |-> "analyzing_structure"]

\* lines 48-89: the write, the call of launchAnalysisAsync, the response
ContinueWrite(c) ==
  /\ cont[c].pc = "write"
  /\ analyses' = UpdateRow(analyses, JobId, cont[c].actor, ResumeFields)
  /\ cont' = [cont EXCEPT ![c] =
       [@ EXCEPT !.pc = "task", !.seen = "none",
                 !.fromWaiting = (rec.status = "waiting_for_data"),
                 !.resp = [code |-> 200, analysis_id |-> JobId,
                           status |-> "in_progress"]]]
  /\ UNCHANGED << launchReq, launchResp, ltask, aiCalls, updates, clientVars >>

\* lines 110-133: first write of the relaunch task, then the request
ContinueTaskStart(c) ==
  /\ cont[c].pc = "task"
  /\ analyses' = UpdateRow(analyses, JobId, cont[c].actor,
       [status |-> "in_progress", current_step |-> "analyzing_structure",
        progress |-> 20])
  /\ aiCalls' = [aiCalls EXCEPT ![c] =
       Append(@, Call(cont[c].question, cont[c].file_ids, << >>,
                      cont[c].supplied))]
  /\ cont' = [cont EXCEPT ![c] = [@ EXCEPT !.pc = "await"]]
  /\ UNCHANGED << launchReq, launchResp, ltask, updates, clientVars >>

\* lines 135-149: the answer is not ok
ContinueNotOk(c) ==
  /\ cont[c].pc = "await"
  /\ analyses' = UpdateRow(analyses, JobId, cont[c].actor, ErrorFields)
  /\ cont' = [cont EXCEPT ![c] = [@ EXCEPT !.pc = "rejected"]]
  /\ UNCHANGED << launchReq, launchResp, ltask, aiCalls, updates, clientVars >>

\* lines 151-163: the answer is ok
ContinueCompleted(c) ==
  /\ cont[c].pc = "await"
  /\ analyses' = UpdateRow(analyses, JobId, cont[c].actor,
       [status |-> "completed", current_step |-> "creating_recommendations",
        progress |-> 100, result |-> Report])
  /\ cont' = [cont EXCEPT ![c] = [@ EXCEPT !.pc = "done"]]
  /\ UNCHANGED << launchReq, launchResp, ltask, aiCalls, updates, clientVars >>

\* a handler that logs the rejection and writes nothing
ContinueRejectedSilent(c) ==
  /\ cont[c].pc \in {"await", "rejected"}
  /\ cont' = [cont EXCEPT ![c] = [@ EXCEPT !.pc = "done"]]
  /\ UNCHANGED << analyses, launchReq, launchResp, ltask, aiCalls, updates, clientVars >>

\* lines 69-83: the .catch handler attached by the route.  The task's own
\* catch block (lines 166-179) names `supabase`, which is not in scope in
\* launchAnalysisAsync: it throws before it writes, so a throwing fetch
\* ("await") and the rethrow after ContinueNotOk ("rejected") both end here.
ContinueRejected(c) ==
  /\ cont[c].pc \in {"await", "rejected"}
  /\ analyses' = UpdateRow(analyses, JobId, cont[c].actor, ErrorFields)
  /\ cont' = [cont EXCEPT ![c] = [@ EXCEPT !.pc = "done"]]
  /\ UNCHANGED << launchReq, launchResp, ltask, aiCalls, updates, clientVars >>

ContinueStep ==
  \E c \in ResumeIds :
    \/ ContinueRead(c)
    \/ ContinueWrite(c)
    \/ ContinueTaskStart(c)
    \/ ContinueNotOk(c)
    \/ ContinueCompleted(c)
    \/ ContinueRejected(c)

\* -------------------------------------------------------- POST update-status
\* lines 39-45: only the fields present in the body are copied
updateData(body) ==
  [f \in DOMAIN body \cap UpdateFields |-> body[f]]

\* The route is called by the analysis service, which learns its URL from
\* the request of the launch task (update_status_url); the route itself
\* checks nothing but the caller's session.
UpdateStatusBy(actor, body) ==
  /\ updates < MaxUpdates
  /\ Exists
  /\ aiCalls[LaunchTask] # << >>
  /\ analyses' = UpdateRow(analyses, JobId, actor, updateData(body))
  /\ updates' = updates + 1
  /\ UNCHANGED << launchReq, launchResp, ltask, cont, aiCalls >>

UpdateStatus ==
  /\ \E actor \in Users, body \in UpdateBodies : UpdateStatusBy(actor, body)
  /\ UNCHANGED clientVars

\* -------------------------------------------------------- hypothesis chips
\* HypothesisChip.value is string | number; `v` is the number, or the number
\* a string spells, so that 60000 and "60000" are distinct values
ChipValues ==
  { [t |-> "number", v |-> 60000],
    [t |-> "number", v |-> 65000],
    [t |-> "string", v |-> 60000] }

ChipIds == {"h1", "h2"}

\* chips as the tab holds them
TabChips ==
  { [id |-> i, label |-> "Salary", value |-> x, type |-> "number"] :
      i \in ChipIds, x \in { y \in ChipValues : y.t = "number" } } \cup
  { [id |-> i, label |-> "Pay", value |-> x, type |-> "text"] :
      i \in ChipIds, x \in { y \in ChipValues : y.t = "string" } }

\* chips as a chat response may carry them
ProposedChips ==
  { [id |-> i, label |-> l.label, value |-> x, type |-> l.type] :
      i \in ChipIds, x \in ChipValues,
      l \in { [label |-> "Salary", type |-> "number"],
              [label |-> "Pay", type |-> "text"] } }

RECURSIVE SeqsUpTo(_, _)
SeqsUpTo(S, n) ==
  IF n = 0 THEN { << >> }
  ELSE LET shorter == SeqsUpTo(S, n - 1) IN
       shorter \cup { Append(q, x) : q \in { r \in shorter : Len(r) = n - 1 },
                                     x \in S }

NoRelaunch == [sent |-> FALSE, hypotheses |-> [k \in {} |-> 0]]

IdlePanel ==
  [analysisId |-> Null,
   hypothesis |-> << >>,
   event |-> "none",
   changed |-> FALSE,
   proposal |-> [present |-> FALSE, chips |-> << >>],
   relaunch |-> NoRelaunch]

\* ------------------------------------------------------------ TabsProvider
\* the projects of the user
UserProjects == {"p1", "p3"}

\* tab ids: `analysis-${analysis.id}`
TabIds == [a1 |-> "analysis-a1", a2 |-> "analysis-a2", a3 |-> "analysis-a3"]

\* tabId.replace('analysis-', '')
analysisIdOf(tabId) == CHOOSE a \in DOMAIN TabIds : TabIds[a] = tabId

NoDelete == [pc |-> "idle", tabId |-> Null, activeProjectId |-> Null]
ClosedHistory == [isOpen |-> FALSE, closedTabs |-> {}]
NoTrip == [stage |-> "none", tabId |-> Null, closedTabs |-> {}, decisionTabs |-> {}]

\* no provider mounted
\* useAnalysisProgress(null): nothing polled, no request logged
IdlePoller ==
  [phase |-> "idle", interval |-> FALSE, isPolling |-> FALSE,
   inflight |-> "none", status |-> Null, error |-> Null]

NoUpdate == [actor |-> Null, fields |-> {}]

HooksIdle ==
  /\ poller = IdlePoller
  /\ lastUpdate = NoUpdate

TabsIdle ==
  /\ activeProjectId = Null
  /\ closedTabs = {}
  /\ localStorage = [p \in UserProjects |-> {}]
  /\ decisionTabs = {}
  /\ loads = {}
  /\ del = NoDelete
  /\ history = ClosedHistory
  /\ trip = NoTrip

Init ==
  /\ JobInit
  /\ sync = IdleSync
  /\ panel = IdlePanel
  /\ TabsIdle
  /\ HooksIdle

Next ==
  \/ Launch
  \/ LaunchTaskStep
  \/ ContinueStep
  \/ UpdateStatus

Spec == Init /\ [][Next]_vars

\* ------------------------------------------------------------- GET status
\* .select(...).eq('id', analysisId).eq('user_id', user.id).single(), then the
\* response object; `result` is the stored one only for a completed row
StatusResponse(tbl, id, caller) ==
  IF id \notin DOMAIN tbl \/ tbl[id].user_id # caller
    THEN [code |-> 404]
    ELSE [code |-> 200,
          analysis_id |-> id,
          status |-> tbl[id].status,
          current_step |-> tbl[id].current_step,
          progress |-> tbl[id].progress,
          steps |-> tbl[id].steps,
          missing_data |-> tbl[id].missing_data,
          partial_result |-> tbl[id].partial_result,
          result |-> IF tbl[id].status = "completed"
                       THEN tbl[id].result ELSE Null,
          question |-> tbl[id].question]

\* ------------------------------------------------ POST analyze (synchronous)
SyncId == "s1"

\* insert({user_id, project_id, question, file_ids: file_ids || [], result});
\* the other columns take the defaults of the table
SyncRow(req, caller) ==
  [user_id |-> caller,
   project_id |-> req.project_id,
   question |-> req.question.text,
   file_ids |-> req.file_ids.ids,
   status |-> "pending",
   current_step |-> Null,
   progress |-> 0,
   steps |-> << >>,
   missing_data |-> << >>,
   partial_result |-> EmptyResult,
   result |-> Report]

\* The route validates as the stream route does, awaits the analysis
\* service, inserts the row with the report and answers with the report.
Analyze ==
  /\ SyncId \notin DOMAIN analyses
  /\ \E req \in LaunchInputs, serviceOk \in BOOLEAN, insertOk \in BOOLEAN :
       LET code == LaunchStatus(req, User) IN
       IF code # 200
         THEN /\ sync' = [req |-> req, resp |-> [code |-> code]]
              /\ UNCHANGED analyses
         ELSE IF ~serviceOk
           THEN /\ sync' = [req |-> req, resp |-> [code |-> 500]]
                /\ UNCHANGED analyses
           ELSE IF ~insertOk
             THEN /\ sync' = [req |-> req,
                              resp |-> [code |-> 200, result |-> Report]]
                  /\ UNCHANGED analyses
             ELSE /\ sync' = [req |-> req,
                              resp |-> [code |-> 200, result |-> Report,
                                        analysis_id |-> SyncId]]
                  /\ analyses' = [k \in {SyncId} |-> SyncRow(req, User)]
  /\ UNCHANGED << launchReq, launchResp, ltask, cont, aiCalls, updates, panel,
                  tabVars, hookVars >>

AnalyzeNext == Analyze

AnalyzeSpec == Init /\ [][AnalyzeNext]_vars

\* ------------------------------------------- hypothesis chat and chip editing
\* a guard that compares the values only
hypothesesChangedByValueOnly(currentHypotheses, newHypotheses) ==
  \/ Len(currentHypotheses) # Len(newHypotheses)
  \/ \E index \in 1..Len(currentHypotheses) :
       IF index > Len(newHypotheses) THEN TRUE
       ELSE currentHypotheses[index].value # newHypotheses[index].value

\* currentHypotheses.length !== newHypotheses.length ||
\*   currentHypotheses.some((hyp, index) =>
\*     !newHyp || hyp.id !== newHyp.id || hyp.value !== newHyp.value)
hypothesesChanged(currentHypotheses, newHypotheses) ==
  \/ Len(currentHypotheses) # Len(newHypotheses)
  \/ \E index \in 1..Len(currentHypotheses) :
       IF index > Len(newHypotheses) THEN TRUE
       ELSE \/ currentHypotheses[index].id # newHypotheses[index].id
            \/ currentHypotheses[index].value # newHypotheses[index].value

\* hypotheses.forEach((hyp) => { hypothesesData[hyp.id] = hyp.value })
hypothesesData(chips) ==
  [k \in { chips[i].id : i \in 1..Len(chips) } |->
     chips[CHOOSE i \in 1..Len(chips) :
             /\ chips[i].id = k
             /\ \A j \in (i + 1)..Len(chips) : chips[j].id # k].value]

\* POST continue with {missing_data: {hypotheses: hypothesesData}}
Relaunch(chips) == [sent |-> TRUE, hypotheses |-> hypothesesData(chips)]

\* updated_hypotheses of the chat response: absent, or an array of chips
ChatProposals ==
  { [present |-> FALSE, chips |-> << >>] } \cup
  { [present |-> TRUE, chips |-> q] : q \in SeqsUpTo(ProposedChips, MaxChips) }

\* CFOAssistant.handleSubmit, for a chat request answered ok (a failed
\* request only adds a chat message). Without an analysis id it returns
\* before the chat request.
handleSubmit ==
  /\ panel.event = "none"
  /\ panel.analysisId # Null
  /\ \E updated \in ChatProposals, should_relaunch_analysis \in BOOLEAN :
       LET changed == /\ updated.present
                      /\ hypothesesChanged(panel.hypothesis, updated.chips)
       IN panel' =
            [panel EXCEPT
               !.event = "chat",
               !.proposal = updated,
               !.changed = changed,
               !.hypothesis = IF changed THEN updated.chips ELSE @,
               !.relaunch = IF should_relaunch_analysis /\ changed
                              THEN Relaunch(updated.chips) ELSE @]
  /\ UNCHANGED << jobVars, sync, tabVars, hookVars >>

\* HypothesisEditor.handleSubmit: a number chip saves a number, any other
\* chip the text of the input
EditorValues(chip) ==
  { x \in ChipValues : (chip.type = "number") <=> (x.t = "number") }

\* HypothesisBar.handleUpdate(chipId, newValue)
handleUpdate ==
  /\ panel.event = "none"
  /\ \E i \in 1..Len(panel.hypothesis) :
       \E newValue \in EditorValues(panel.hypothesis[i]) :
         LET chipId == panel.hypothesis[i].id
             updated == [j \in 1..Len(panel.hypothesis) |->
                           IF panel.hypothesis[j].id = chipId
                             THEN [panel.hypothesis[j] EXCEPT !.value = newValue]
                             ELSE panel.hypothesis[j]]
         IN panel' =
              [panel EXCEPT
                 !.event = "chip",
                 !.proposal = [present |-> TRUE, chips |-> updated],
                 !.hypothesis = updated,
                 !.relaunch = IF panel.analysisId # Null
                                THEN Relaunch(updated) ELSE @]
  /\ UNCHANGED << jobVars, sync, tabVars, hookVars >>

\* a decision tab as loadAnalyses or a question just asked leaves it
GuardInit ==
  /\ JobInit
  /\ sync = IdleSync
  /\ panel \in { [IdlePanel EXCEPT !.analysisId = a, !.hypothesis = h] :
                    a \in {Null, JobId}, h \in SeqsUpTo(TabChips, MaxChips) }
  /\ TabsIdle
  /\ HooksIdle

GuardNext ==
  \/ handleSubmit
  \/ handleUpdate

GuardSpec == GuardInit /\ [][GuardNext]_vars

\* ------------------------------------------------ tabs: close, reopen, delete
\* the variables no tab operation touches
routeVars ==
  << launchReq, launchResp, ltask, cont, aiCalls, updates, sync, panel,
     hookVars >>

\* a completed analysis of the user in project p
TabRow(p) ==
  Patch(NewRow([question |-> [type |-> "string", text |-> "Can I hire at 60000?"],
                project_id |-> p,
                file_ids |-> [array |-> TRUE, ids |-> << >>]], User),
        [status |-> "completed", current_step |-> "creating_recommendations",
         progress |-> 100, steps |-> StepsCompleted, result |-> Report])

\* .from('analyses').select('*').eq('user_id', user.id).eq('project_id', p)
ProjectRows(tbl, p) ==
  { a \in DOMAIN tbl : tbl[a].user_id = User /\ tbl[a].project_id = p }

\* .from('analyses').delete().eq('id', id).eq('user_id', user.id)
DeleteRow(tbl, id, actor) ==
  [k \in { a \in DOMAIN tbl : ~(a = id /\ tbl[a].user_id = actor) } |-> tbl[k]]

\* getClosedTabsForProject(projectId): the analyses of the project whose tab
\* id is in the stored closed set
getClosedTabsForProject(tbl, store, projectId) ==
  { TabIds[a] : a \in ProjectRows(tbl, projectId) } \cap store[projectId]

\* loadAnalyses up to its await: the query as answered for the project of
\* the closure
QueryAnalyses(projectId) ==
  [activeProjectId |-> projectId, data |-> ProjectRows(analyses, projectId)]

\* loadAnalyses after its await: the tabs of the rows read, without those in
\* the closed set stored now for the project of the closure
LoadAnalysesApply ==
  \E l \in loads :
    /\ decisionTabs' =
         { TabIds[a] : a \in l.data } \ localStorage[l.activeProjectId]
    /\ loads' = loads \ {l}
    /\ trip' = IF /\ trip.stage = "reopened"
                  /\ l = QueryAnalyses(activeProjectId)
                  /\ loads = {l}
                 THEN [trip EXCEPT !.stage = "restored"] ELSE NoTrip
    /\ UNCHANGED << routeVars, analyses, activeProjectId, closedTabs, localStorage, del,
                    history >>

\* the project selector: the effect on activeProjectId reloads closedTabs
\* from localStorage, and loadAnalyses starts
SwitchProject ==
  /\ ~history.isOpen
  /\ \E p \in UserProjects \ {activeProjectId} :
       /\ activeProjectId' = p
       /\ closedTabs' = localStorage[p]
       /\ loads' = loads \cup { QueryAnalyses(p) }
  /\ trip' = NoTrip
  /\ UNCHANGED << routeVars, analyses, localStorage, decisionTabs, del, history >>

\* closeTab(tabId), from the close button of a listed tab
closeTabOf(tabId) ==
  /\ IF tabId \in { TabIds[a] : a \in DOMAIN TabIds }
        /\ activeProjectId # Null
       THEN /\ closedTabs' = closedTabs \cup {tabId}
            /\ localStorage' =
                 [localStorage EXCEPT ![activeProjectId] = closedTabs']
       ELSE UNCHANGED << closedTabs, localStorage >>
  /\ decisionTabs' = decisionTabs \ {tabId}
  /\ trip' = IF loads = {}
               THEN [stage |-> "closed", tabId |-> tabId,
                     closedTabs |-> closedTabs, decisionTabs |-> decisionTabs]
               ELSE NoTrip

closeTab ==
  /\ ~history.isOpen
  /\ \E tabId \in decisionTabs : closeTabOf(tabId)
  /\ UNCHANGED << routeVars, analyses, activeProjectId, loads, del, history >>

\* the history button: HistoryModal opens and loads its list
OpenHistory ==
  /\ ~history.isOpen
  /\ activeProjectId # Null
  /\ history' = [isOpen |-> TRUE,
                 closedTabs |-> getClosedTabsForProject(analyses, localStorage,
                                                        activeProjectId)]
  /\ trip' = IF trip.stage = "closed" THEN trip ELSE NoTrip
  /\ UNCHANGED << routeVars, analyses, activeProjectId, closedTabs, localStorage,
                  decisionTabs, loads, del >>

\* the close button or the backdrop of HistoryModal
CloseHistory ==
  /\ history.isOpen
  /\ history' = ClosedHistory
  /\ trip' = NoTrip
  /\ UNCHANGED << routeVars, analyses, activeProjectId, closedTabs, localStorage,
                  decisionTabs, loads, del >>

\* HistoryModal.handleReopen: reopenTab(tabId), then onClose()
reopenTabOf(tabId) ==
  /\ activeProjectId # Null
  /\ closedTabs' = closedTabs \ {tabId}
  /\ localStorage' = [localStorage EXCEPT ![activeProjectId] = closedTabs']
  /\ loads' = loads \cup { QueryAnalyses(activeProjectId) }
  /\ trip' = IF trip.stage = "closed" /\ trip.tabId = tabId
               THEN [trip EXCEPT !.stage = "reopened"] ELSE NoTrip

reopenTab ==
  /\ history.isOpen
  /\ \E tabId \in history.closedTabs : reopenTabOf(tabId)
  /\ history' = ClosedHistory
  /\ UNCHANGED << routeVars, analyses, activeProjectId, decisionTabs, del >>

\* HistoryModal.handleDelete, confirmed: permanentlyDeleteTab(tabId) up to
\* its await
DeleteStart ==
  /\ history.isOpen
  /\ del.pc = "idle"
  /\ \E tabId \in history.closedTabs :
       del' = [pc |-> "await", tabId |-> tabId,
               activeProjectId |-> activeProjectId]
  /\ trip' = NoTrip
  /\ UNCHANGED << routeVars, analyses, activeProjectId, closedTabs, localStorage,
                  decisionTabs, loads, history >>

\* the delete request is served: the row is removed, or the request fails
\* and permanentlyDeleteTab throws (handleDelete alerts)
DeleteServed ==
  /\ del.pc = "await"
  /\ \E ok \in BOOLEAN :
       IF ok
         THEN /\ analyses' = DeleteRow(analyses, analysisIdOf(del.tabId), User)
              /\ del' = [del EXCEPT !.pc = "deleted"]
         ELSE /\ del' = NoDelete
              /\ UNCHANGED analyses
  /\ trip' = NoTrip
  /\ UNCHANGED << routeVars, activeProjectId, closedTabs, localStorage, decisionTabs,
                  loads, history >>

\* a continuation that reloads the modal and leaves the closed set alone
DeleteDoneKeepingId ==
  /\ del.pc = "deleted"
  /\ history' =
       IF history.isOpen /\ del.activeProjectId # Null
         THEN [history EXCEPT !.closedTabs =
                 getClosedTabsForProject(analyses, localStorage,
                                         del.activeProjectId)]
         ELSE history
  /\ del' = NoDelete
  /\ trip' = NoTrip
  /\ UNCHANGED << routeVars, analyses, activeProjectId, closedTabs,
                  localStorage, decisionTabs, loads >>

\* permanentlyDeleteTab after its await: the tab id leaves the current
\* closedTabs state, which is saved under the project of the closure; then
\* handleDelete reloads the list of the modal for that project
DeleteDone ==
  /\ del.pc = "deleted"
  /\ IF del.activeProjectId # Null
       THEN /\ closedTabs' = closedTabs \ {del.tabId}
            /\ localStorage' =
                 [localStorage EXCEPT ![del.activeProjectId] = closedTabs']
       ELSE UNCHANGED << closedTabs, localStorage >>
  /\ history' =
       IF history.isOpen /\ del.activeProjectId # Null
         THEN [history EXCEPT !.closedTabs =
                 getClosedTabsForProject(analyses, localStorage',
                                         del.activeProjectId)]
         ELSE history
  /\ del' = NoDelete
  /\ trip' = NoTrip
  /\ UNCHANGED << routeVars, analyses, activeProjectId, decisionTabs, loads >>

\* the provider mounted on project p1, its analyses loaded, nothing closed
TabsInit ==
  /\ analyses = [a \in DOMAIN TabIds |->
                   TabRow(IF a = "a3" THEN "p3" ELSE "p1")]
  /\ launchReq = IdleSync.req
  /\ launchResp = NoResponse
  /\ ltask = [pc |-> "idle", filesData |-> << >>]
  /\ cont = [c \in ResumeIds |-> IdleCont]
  /\ aiCalls = [t \in TaskIds |-> << >>]
  /\ updates = 0
  /\ sync = IdleSync
  /\ panel = IdlePanel
  /\ activeProjectId = "p1"
  /\ closedTabs = {}
  /\ localStorage = [p \in UserProjects |-> {}]
  /\ decisionTabs = { TabIds[a] : a \in ProjectRows(analyses, "p1") }
  /\ loads = {}
  /\ del = NoDelete
  /\ history = ClosedHistory
  /\ trip = NoTrip
  /\ HooksIdle

TabsNext ==
  \/ LoadAnalysesApply
  \/ SwitchProject
  \/ closeTab
  \/ OpenHistory
  \/ CloseHistory
  \/ reopenTab
  \/ DeleteStart
  \/ DeleteServed
  \/ DeleteDone

TabsSpec == TabsInit /\ [][TabsNext]_vars

\* ----------------------------------------- update-status, caller observed
\* bodies of POST update-status that carry a steps array: the template with
\* its fourth step running, and an array of two steps in another order
StepsBodies ==
  { [steps |-> StepsAt(3, "metrics"), current_step |-> "calculating_metrics"],
    [steps |-> << steps[2], steps[1] >>] }

\* the update-status route as in UpdateStatus, keeping the caller of the
\* request and the names of the fields its updateData carries
UpdateStatusLogged ==
  /\ \E actor \in Users, body \in UpdateBodies \cup StepsBodies :
       /\ UpdateStatusBy(actor, body)
       /\ lastUpdate' = [actor |-> actor, fields |-> DOMAIN updateData(body)]
  /\ UNCHANGED << sync, panel, tabVars, poller >>

ScopeNext ==
  \/ Launch
  \/ LaunchTaskStep
  \/ ContinueStep
  \/ UpdateStatusLogged

ScopeSpec == Init /\ [][ScopeNext]_vars

\* ------------------------------------------------- useAnalysisProgress
\* statuses on which pollStatus stops only when the job has completed
StopStatusesCompletedOnly == {"completed"}

\* lines 60-69: the statuses on which pollStatus clears the interval
StopStatuses == {"completed", "error"}

\* lines 42-50: pollStatus up to its fetch; it returns at once while another
\* call is between its fetch and its end
pollStatusSend(kind) ==
  /\ ~poller.isPolling
  /\ poller' = [poller EXCEPT !.isPolling = TRUE, !.inflight = kind,
                              !.error = Null]

\* lines 101-119, called by the effect of lines 131-144 once the launch
\* response has given the modal its analysisId: the initial poll is sent and
\* the interval is set
startPolling ==
  /\ poller.phase = "idle"
  /\ launchResp.code = 200
  /\ poller' = [poller EXCEPT !.phase = "mounted", !.interval = TRUE,
                              !.isPolling = TRUE, !.inflight = "initial"]
  /\ UNCHANGED << jobVars, sync, panel, tabVars, lastUpdate >>

\* lines 116-118: the callback of setInterval
IntervalTick ==
  /\ poller.interval
  /\ pollStatusSend("interval")
  /\ UNCHANGED << jobVars, sync, panel, tabVars, lastUpdate >>

\* lines 147-151: the manual poll the hook hands to its component
refresh ==
  /\ poller.phase = "mounted"
  /\ pollStatusSend("refresh")
  /\ UNCHANGED << jobVars, sync, panel, tabVars, lastUpdate >>

\* lines 50-98: the status route answers and pollStatus goes on.  `ok` is
\* whether the fetch resolved with an ok response, `late` whether more than
\* MAX_POLLING_TIME has passed since startPolling.
pollStatusReceive ==
  /\ poller.inflight # "none"
  /\ \E ok \in BOOLEAN, late \in BOOLEAN :
       LET data == StatusResponse(analyses, JobId, User)
           done == [poller EXCEPT !.isPolling = FALSE, !.inflight = "none"]
       IN
       poller' =
         IF ~ok \/ data.code # 200
           THEN [done EXCEPT !.interval = FALSE, !.error = "fetch"]
         ELSE IF data.status \in StopStatuses
           THEN [done EXCEPT !.status = data.status, !.interval = FALSE]
         ELSE IF late
           THEN [done EXCEPT !.status = data.status, !.interval = FALSE,
                             !.error = "timeout"]
           ELSE [done EXCEPT !.status = data.status]
  /\ UNCHANGED << jobVars, sync, panel, tabVars, lastUpdate >>

\* lines 121-128, called by the cleanup of the effect when the modal closes
stopPolling ==
  /\ poller.phase = "mounted"
  /\ poller' = [poller EXCEPT !.phase = "unmounted", !.interval = FALSE,
                              !.isPolling = FALSE]
  /\ UNCHANGED << jobVars, sync, panel, tabVars, lastUpdate >>

PollNext ==
  \/ Launch
  \/ LaunchTaskStep
  \/ UpdateStatus
  \/ startPolling
  \/ IntervalTick
  \/ refresh
  \/ pollStatusReceive
  \/ stopPolling

PollSpec == Init /\ [][PollNext]_vars

\* ------------------------------------------------ the job, tasks scheduled
\* the steps of the relaunch task of continue request c, from the write of
\* the route that precedes its call
ContinueTaskStep(c) ==
  \/ ContinueWrite(c)
  \/ ContinueTaskStart(c)
  \/ ContinueNotOk(c)
  \/ ContinueCompleted(c)
  \/ ContinueRejected(c)

\* Every await of a started task resolves: the store answers each write and
\* the fetch of the analysis service returns or throws.  Requests (launch,
\* continue, update-status) are under no obligation to arrive.
FairSpec ==
  /\ Spec
  /\ WF_vars(LaunchTaskStep)
  /\ \A c \in ResumeIds : WF_vars(ContinueTaskStep(c))

\* ================================================================== claims
ContinueWrites(c) == cont[c].pc = "write" /\ cont'[c].pc # "write"

\* C1: a resume of a job whose status is not waiting_for_data is refused and
\* leaves the row as it was; no relaunch task and no service call start.
C1_ResumeRefusedUnlessWaiting ==
  [][\A c \in ResumeIds :
       (ContinueWrites(c) /\ rec.status # "waiting_for_data")
         => /\ analyses' = analyses
            /\ cont'[c].resp.code # 200
            /\ cont'[c].pc = "done"
            /\ aiCalls' = aiCalls]_vars

\* every missing_data item flagged required has a value in the mapping
CoversRequired(supplied, missing) ==
  \A i \in 1..Len(missing) :
    missing[i].required => missing[i].id \in DOMAIN supplied

\* C2: a resume whose mapping lacks a required item is refused and leaves
\* the row (status waiting_for_data, missing_data) as it was.
C2_ResumeNeedsRequiredItems ==
  [][\A c \in ResumeIds :
       (/\ ContinueWrites(c)
        /\ rec.status = "waiting_for_data"
        /\ ~CoversRequired(cont[c].supplied, rec.missing_data))
         => /\ analyses' = analyses
            /\ cont'[c].resp.code # 200]_vars

\* C3: an accepted resume of a waiting_for_data job writes an empty
\* missing_data, status in_progress and progress 20, and its task then
\* sends exactly one request to the service, carrying the question and the
\* file set of the row and the supplied data.
C3_ResumeRestartsOnce ==
  /\ [][\A c \in ResumeIds :
          (ContinueWrites(c) /\ rec.status = "waiting_for_data")
            => /\ analyses'[JobId].status = "in_progress"
               /\ analyses'[JobId].missing_data = << >>
               /\ analyses'[JobId].progress = 20
               /\ cont'[c].resp.code = 200
               /\ aiCalls'[c] = << >>]_vars
  /\ [](\A c \in ResumeIds :
          cont[c].fromWaiting =>
            IF cont[c].pc = "task"
              THEN aiCalls[c] = << >>
              ELSE aiCalls[c] = << Call(rec.question, rec.file_ids, << >>,
                                        cont[c].supplied) >>)

C3_Witness ==
  \E c \in ResumeIds :
    /\ cont[c].fromWaiting
    /\ cont[c].pc = "done"
    /\ cont[c].supplied = [k \in {"salary"} |-> 60000]
    /\ Len(aiCalls[c]) = 1
    /\ rec.status = "completed"

\* C4: a resume that read the row while it was waiting_for_data and finds it
\* no longer waiting at its write does not write and starts no task.
C4_StaleResumeIsNoOp ==
  [][\A c \in ResumeIds :
       (/\ ContinueWrites(c)
        /\ cont[c].seen = "waiting_for_data"
        /\ rec.status # "waiting_for_data")
         => /\ analyses'[JobId].status = rec.status
            /\ analyses'[JobId].progress = rec.progress
            /\ analyses'[JobId].missing_data = rec.missing_data
            /\ analyses'[JobId].current_step = rec.current_step
            /\ cont'[c].pc = "done"]_vars

\* C5: once the status is completed or error, no step of the launch task,
\* of a continue request or of a relaunch task changes it.
C5_TerminalStatusKept ==
  [][(/\ Exists
      /\ rec.status \in {"completed", "error"}
      /\ updates' = updates)
       => analyses'[JobId].status = rec.status]_vars

LegalTransitions ==
  { << "pending", "in_progress" >>,
    << "in_progress", "in_progress" >>,
    << "in_progress", "waiting_for_data" >>,
    << "in_progress", "completed" >>,
    << "in_progress", "error" >>,
    << "waiting_for_data", "in_progress" >> }

\* C6: every change of the status of the row is a legal transition.
C6_OnlyLegalTransitions ==
  [][(Exists /\ analyses'[JobId].status # rec.status)
       => << rec.status, analyses'[JobId].status >> \in LegalTransitions]_vars

\* C7: the launch response carrying the job id is produced with the row
\* pending at progress 0, the task not yet past its first await and no
\* request sent to the service; nothing that happens later changes it.
C7_LaunchRespondsFirst ==
  [][/\ (launchResp.code # 200 /\ launchResp'.code = 200)
          => /\ JobId \in DOMAIN analyses'
             /\ analyses'[JobId].status = "pending"
             /\ analyses'[JobId].progress = 0
             /\ launchResp'.analysis_id = JobId
             /\ launchResp'.status = "pending"
             /\ ltask'.pc = "start"
             /\ \A t \in TaskIds : aiCalls'[t] = << >>
     /\ launchResp.code = 200 => launchResp' = launchResp]_vars

C7_Witness ==
  /\ launchResp.code = 200
  /\ launchResp.status = "pending"
  /\ ltask.pc = "done"
  /\ Len(aiCalls[LaunchTask]) = 1
  /\ rec.status = "error"

\* what the claim calls an invalid launch
InvalidLaunch(req, caller) ==
  \/ req.question.type # "string"
  \/ req.question.text = ""
  \/ req.project_id = NoProject
  \/ req.project_id \notin DOMAIN ProjectOwner
  \/ ProjectOwner[req.project_id] # caller
  \/ \E i \in 1..Len(req.file_ids.ids) :
       LET f == req.file_ids.ids[i] IN
       \/ f \notin DOMAIN FileRows
       \/ FileRows[f].user_id # caller
       \/ FileRows[f].project_id # req.project_id

\* C8: an invalid launch is answered 400 or 403 and creates no row, starts
\* no task and sends nothing to the service.
C8_InvalidLaunchRefused ==
  [][(/\ (launchReq' # launchReq \/ launchResp' # launchResp)
      /\ InvalidLaunch(launchReq', User))
       => /\ launchResp'.code \in {400, 403}
          /\ analyses' = << >>
          /\ ltask'.pc = "idle"
          /\ aiCalls' = aiCalls]_vars

C8_Witness ==
  /\ launchResp.code = 403
  /\ launchReq.question.type = "string"
  /\ launchReq.question.text # ""
  /\ launchReq.project_id = "p1"
  /\ launchReq.file_ids.ids = <<"f1", "f3">>
  /\ ~Exists

\* a step in which a task handles a failed call of the service
ServiceFailureStep ==
  \/ ltask.pc = "await" /\ ltask'.pc \in {"catch", "rejected"}
  \/ \E c \in ResumeIds :
       /\ cont[c].pc = "await"
       /\ cont'[c].pc # "await"
       /\ analyses'[JobId].status # "completed"

C10_ProgressNeverLowered ==
  [][(/\ Exists
      /\ rec.status \in {"pending", "in_progress"}
      /\ analyses'[JobId].progress < rec.progress)
       => \E c \in ResumeIds : ContinueWrites(c)]_vars

\* the rows of the table as records and as status-poll responses
ResultOnlyWhenCompleted(id) ==
  /\ analyses[id].result # EmptyResult => analyses[id].status = "completed"
  /\ StatusResponse(analyses, id, User).result \notin {Null, EmptyResult}
       => StatusResponse(analyses, id, User).status = "completed"

\* C11: a row holds a non-empty result only when its status is completed,
\* and a status poll returns a non-empty result only with status completed;
\* this covers the rows inserted by the synchronous analyze route.
C11_ResultOnlyWhenCompleted ==
  \A id \in DOMAIN analyses : ResultOnlyWhenCompleted(id)

\* C12: no status poll returns status completed together with an empty
\* result, whatever the point of the task at which the poll is served.
C12_PollNeverCompletedEmpty ==
  Exists =>
    LET r == StatusResponse(analyses, JobId, User) IN
    ~(r.status = "completed" /\ r.result = EmptyResult)

\* a step of a background task: the launch task or a relaunch task
TaskStep ==
  \/ ltask'.pc # ltask.pc
  \/ \E c \in ResumeIds :
       /\ cont[c].pc \in {"task", "await", "rejected"}
       /\ cont'[c].pc # cont[c].pc

\* C13: while the row is waiting_for_data with missing_data populated, no
\* step of a background task changes status, steps or progress; only a
\* resume moves the row on.
C13_TaskHaltsWhileWaiting ==
  [][(/\ Exists
      /\ rec.status = "waiting_for_data"
      /\ rec.missing_data # << >>
      /\ TaskStep)
       => /\ analyses'[JobId].status = rec.status
          /\ analyses'[JobId].steps = rec.steps
          /\ analyses'[JobId].progress = rec.progress]_vars

\* C14: missing_data is non-empty only while the row is waiting_for_data,
\* and the write of a resume leaves it empty.
C14_MissingDataOnlyWhileWaiting ==
  Exists /\ rec.missing_data # << >> => rec.status = "waiting_for_data"

\* the (id, value) pairs of a sequence of chips, in order
Pairs(chips) == [i \in 1..Len(chips) |-> << chips[i].id, chips[i].value >>]

\* the sequences differ in length, or some index has differing ids or values
Differs(current, proposed) ==
  \/ Len(current) # Len(proposed)
  \/ \E i \in 1..Len(current) :
       \/ current[i].id # proposed[i].id
       \/ current[i].value # proposed[i].value

\* a chat turn that carried proposed hypotheses
ChatTurn ==
  /\ panel.event = "none"
  /\ panel'.event = "chat"
  /\ panel'.proposal.present

\* C15: the guard reports "changed" exactly when the current and the
\* proposed sequence differ in length or, at some index, in id or in value;
\* sequences with the same (id, value) pairs in the same order are
\* "unchanged" whatever their labels and types.
C15_GuardVerdict ==
  [][ChatTurn
       => /\ panel'.changed <=> Differs(panel.hypothesis, panel'.proposal.chips)
          /\ Pairs(panel.hypothesis) = Pairs(panel'.proposal.chips)
               => ~panel'.changed]_vars

C15_Witness ==
  /\ panel.event = "chat"
  /\ panel.proposal.present
  /\ ~panel.changed
  /\ Len(panel.hypothesis) = 2
  /\ panel.hypothesis[1].id # panel.hypothesis[2].id
  /\ panel.proposal.chips # panel.hypothesis
  /\ panel.proposal.chips[1].label # panel.hypothesis[1].label
  /\ panel.proposal.chips[2].type # panel.hypothesis[2].type

\* C16: a relaunch (POST continue carrying hypotheses) is issued only when
\* the proposed hypotheses differ from the current ones, for a chat turn
\* and for the save of a hypothesis chip alike.
C16_RelaunchOnlyWhenChanged ==
  [][(~panel.relaunch.sent /\ panel'.relaunch.sent)
       => Differs(panel.hypothesis, panel'.proposal.chips)]_vars

AllTabs == { TabIds[a] : a \in DOMAIN TabIds }

\* tab t is closed from the listing
ClosesTab(t) ==
  /\ ~history.isOpen
  /\ t \in decisionTabs
  /\ closeTabOf(t)

\* C17: closing the tab of a job puts its id in the closed set of the
\* project, takes it out of the active listing and leaves every record as
\* it was; the job is then in the closed listing of the project.
C17_CloseHidesJob ==
  [][\A t \in AllTabs :
       ClosesTab(t)
         => /\ t \in closedTabs'
            /\ t \in localStorage'[activeProjectId]
            /\ t \notin decisionTabs'
            /\ analyses' = analyses
            /\ t \in getClosedTabsForProject(analyses', localStorage',
                                             activeProjectId)]_vars

\* tab t is reopened from the history
ReopensTab(t) ==
  /\ history.isOpen
  /\ t \in history.closedTabs
  /\ reopenTabOf(t)
  /\ ~history'.isOpen

\* C18: reopening a tab takes its id out of the closed set; once the reload
\* it starts has run, the tab is in the active listing again, and a close
\* followed at once by the reopening of the same tab leaves the closed set
\* and the active listing as they were before the close.
C18_ReopenRestores ==
  [][/\ \A t \in AllTabs :
          ReopensTab(t)
            => /\ t \notin closedTabs'
               /\ t \notin localStorage'[activeProjectId]
               /\ analyses' = analyses
     /\ trip'.stage = "restored"
          => /\ trip'.tabId \in decisionTabs'
             /\ closedTabs' = trip'.closedTabs
             /\ decisionTabs' = trip'.decisionTabs]_vars

C20_ClosedIdsHaveRecords ==
  (del.pc = "idle" /\ loads = {})
    => \A p \in UserProjects :
         \A t \in localStorage[p] : analysisIdOf(t) \in DOMAIN analyses

C21_ScopedToOwner ==
  /\ [](Exists =>
          \A u \in Users \ {rec.user_id} :
            /\ StatusResponse(analyses, JobId, u).code = 404
            /\ DOMAIN StatusResponse(analyses, JobId, u) = {"code"})
  /\ [][(updates' # updates /\ lastUpdate'.actor # rec.user_id)
          => analyses' = analyses]_vars
  /\ [][\A c \in ResumeIds :
          (cont'[c] # cont[c] /\ cont'[c].actor # rec.user_id)
            => /\ analyses' = analyses
               /\ aiCalls' = aiCalls
               /\ cont'[c].pc = "done"
               /\ cont'[c].resp = [code |-> 404]]_vars

C21_Witness ==
  /\ Exists
  /\ rec.user_id = User
  /\ rec.status = "in_progress"
  /\ lastUpdate.actor = OtherUser
  /\ "status" \in lastUpdate.fields
  /\ \E c \in ResumeIds :
       /\ cont[c].actor = OtherUser
       /\ cont[c].pc = "done"
       /\ cont[c].supplied = [k \in {"salary"} |-> 60000]

\* a step in which pollStatus receives an ok answer carrying status s
Observes(s) ==
  /\ poller.inflight # "none"
  /\ poller'.inflight = "none"
  /\ poller'.status = s
  /\ poller'.error # "fetch"

\* a step in which the interval callback sends a status request
IntervalSend == poller.inflight = "none" /\ poller'.inflight = "interval"

\* once polling has started and the interval is cleared, it stays cleared and
\* no interval-driven request is sent
ClearedForGood ==
  (poller.phase # "idle" /\ ~poller.interval)
    => (~poller'.interval /\ ~IntervalSend)

\* C22 as stated: an answer with status completed or error clears the
\* interval and no interval-driven request follows, and an answer with status
\* pending, in_progress or waiting_for_data leaves the interval as it was.
C22_StopsOnTerminalOnly ==
  [][/\ \A s \in {"completed", "error"} : Observes(s) => ~poller'.interval
     /\ ClearedForGood
     /\ \A s \in {"pending", "in_progress", "waiting_for_data"} :
          Observes(s) => poller'.interval = poller.interval]_vars

\* C22: an answer with status completed or error clears the interval and no
\* interval-driven request follows; an answer with status pending,
\* in_progress or waiting_for_data leaves the interval as it was unless more
\* than MAX_POLLING_TIME has passed since polling started, in which case the
\* interval is cleared and the timeout error is set.
C22_StopsOnTerminalOrTimeout ==
  [][/\ \A s \in {"completed", "error"} : Observes(s) => ~poller'.interval
     /\ ClearedForGood
     /\ \A s \in {"pending", "in_progress", "waiting_for_data"} :
          Observes(s) =>
            \/ poller'.interval = poller.interval /\ poller'.error = Null
            \/ ~poller'.interval /\ poller'.error = "timeout"]_vars

C22_Witness ==
  /\ Exists
  /\ rec.status = "error"
  /\ poller.phase = "mounted"
  /\ poller.status = "error"
  /\ poller.error = Null
  /\ poller.inflight = "none"
  /\ ~poller.interval

\* the background tasks that have been started and have writes left to make
ActiveTasks ==
  { t \in TaskIds :
      IF t = LaunchTask
        THEN ltask.pc \notin {"idle", "done"}
        ELSE cont[t].pc \in {"task", "await", "rejected"} }

\* C23: at any time at most one background task is advancing the job,
\* whatever launch and continue requests are made.
C23_SingleWriter == Cardinality(ActiveTasks) <= 1

ProtectedColumns ==
  {"user_id", "project_id", "question", "file_ids", "partial_result", "result"}

\* C25: an update-status request overwrites only the columns its body names
\* among status, current_step, progress, steps and missing_data; every other
\* column keeps the value it had, whatever a task wrote there before, and
\* the id, owner, project, question, file set and result are never touched.
C25_UpdateWritesNamedFieldsOnly ==
  [][updates' # updates
       => /\ DOMAIN analyses' = DOMAIN analyses
          /\ lastUpdate'.fields \subseteq UpdateFields
          /\ \A f \in DOMAIN rec \ lastUpdate'.fields :
               analyses'[JobId][f] = rec[f]
          /\ \A f \in ProtectedColumns : analyses'[JobId][f] = rec[f]]_vars

C25_Witness ==
  /\ Exists
  /\ lastUpdate.actor = User
  /\ lastUpdate.fields = {"current_step", "progress"}
  /\ rec.current_step = "calculating_metrics"
  /\ rec.progress = 50
  /\ rec.status = "completed"
  /\ rec.steps = StepsCompleted
  /\ rec.result = EmptyResult
  /\ ltask.pc = "result"

\* the names of a steps array, in order
NamesOf(array) == [i \in 1..Len(array) |-> array[i].name]

\* C26: in every state after creation the steps of the row carry the six
\* names of the template, in the order of the template.
C26_StepsKeepTemplate == Exists => NamesOf(rec.steps) = StepNames

\* round(100 * completed / total), plus 5 while some step is in progress
ProgressOf(array) ==
  LET total == Len(array)
      completed == Cardinality({ i \in 1..total : array[i].status = "completed" })
      running == \E i \in 1..total : array[i].status = "in_progress"
  IN ((200 * completed + total) \div (2 * total)) + (IF running THEN 5 ELSE 0)

\* C27: after every write of a background task other than an error write,
\* progress is round(100 * completed / total) over the steps of the row,
\* plus 5 when a step is in progress.
C27_ProgressFromSteps ==
  [][(/\ Exists
      /\ TaskStep
      /\ analyses' # analyses
      /\ analyses'[JobId].status # "error")
       => analyses'[JobId].progress = ProgressOf(analyses'[JobId].steps)]_vars

\* C28: a write that makes a step of the row completed finds that step in
\* progress and named by current_step: each step of a job is written as the
\* running step before it is written completed.
C28_StepsRunBeforeCompleted ==
  [][Exists =>
       \A i \in 1..Len(rec.steps) :
         (/\ i <= Len(analyses'[JobId].steps)
          /\ analyses'[JobId].steps[i].status = "completed"
          /\ rec.steps[i].status # "completed")
           => /\ rec.steps[i].status = "in_progress"
              /\ rec.current_step = rec.steps[i].name]_vars

\* C29: the download step of the launch task, whatever files it could
\* fetch, leaves the status of the row as it was and goes on to the call of
\* the service; that call carries exactly the files that were fetched.
C29_FileFailureNotFatal ==
  /\ [][(ltask.pc = "check" /\ ltask'.pc # "check")
          => /\ ltask'.pc = "structure"
             /\ ltask'.filesData \in SubSeqs(launchReq.file_ids.ids)
             /\ analyses'[JobId].status = rec.status]_vars
  /\ [][(ltask.pc = "structure" /\ ltask'.pc # "structure")
          => /\ ltask'.pc = "await"
             /\ analyses'[JobId].status = rec.status
             /\ aiCalls'[LaunchTask] =
                  << Call(launchReq.question.text, launchReq.file_ids.ids,
                          ltask.filesData, NoProvided) >>]_vars

C29_Witness ==
  /\ Exists
  /\ rec.status = "completed"
  /\ rec.file_ids = <<"f1">>
  /\ ltask.pc = "done"
  /\ ltask.filesData = << >>
  /\ Len(aiCalls[LaunchTask]) = 1
  /\ aiCalls[LaunchTask][1].files_data = << >>
  /\ aiCalls[LaunchTask][1].file_ids = <<"f1">>

\* C30: whenever the status of the row is completed, every step of the row
\* has status completed.
C30_CompletedMeansAllStepsCompleted ==
  (Exists /\ rec.status = "completed")
    => \A i \in 1..Len(rec.steps) : rec.steps[i].status = "completed"
====
